---- MODULE Spec2Model ----
(***************************************************************************)
(* Model of the native packet format of include/tio/packet.h: the header   *)
(* with its two length fields, the floating routing trailer with its hop   *)
(* stack (tl_packet_push_hop / tl_packet_pop_hop), the derived sizes and   *)
(* offsets, the stream id, and the routing path codec                      *)
(* (tl_parse_routing / tl_format_routing), whose implementation is not     *)
(* part of the header and is modelled from its documented contract.        *)
(***************************************************************************)
EXTENDS Integers, Sequences, FiniteSets, TLC

VARIABLES
  pkt,      \* the tl_packet being operated on: header fields and the bytes after the header
  hdr0,     \* history: the header the packet was handed over with
  calls,    \* history: the most recent calls, each [op, arg, ret, rs0, rs1]
  phase,    \* position of the calling code in the scenario being run
  ub,       \* TRUE once a call accessed memory outside the tl_packet object
  path,     \* the routing_path string handed to tl_parse_routing
  routing,  \* the caller's routing[TL_PACKET_MAX_ROUTING_SIZE] array
  parsed,   \* return value of tl_parse_routing (meaningful once it has been called)
  fmt       \* result of tl_format_routing: [ret, buf, size] (meaningful once called)

vars == <<pkt, hdr0, calls, phase, ub, path, routing, parsed, fmt>>

-----------------------------------------------------------------------------
(* Constants of packet.h *)

TL_PACKET_MAX_SIZE == 512
TL_PACKET_MAX_ROUTING_SIZE == 8
\* sizeof(tl_packet_header): packed uint8_t + uint8_t + uint16_t
SizeofHeader == 4
TL_PACKET_MAX_PAYLOAD_SIZE == TL_PACKET_MAX_SIZE - SizeofHeader - TL_PACKET_MAX_ROUTING_SIZE
TL_PTYPE_STREAM0 == 128
TL_ROUTING_FMT_BUF_SIZE == TL_PACKET_MAX_ROUTING_SIZE * 4 + 2

Byte == 0..255
\* sizeof(tl_packet) = header + payload[] + __routing_reserved[]
SizeofPacket == SizeofHeader + TL_PACKET_MAX_PAYLOAD_SIZE + TL_PACKET_MAX_ROUTING_SIZE
\* The bytes of a tl_packet after its header, addressed by their offset from
\* the start of the packet: payload[] followed by __routing_reserved[].
DataOffsets == SizeofHeader..(SizeofPacket - 1)

-----------------------------------------------------------------------------
(* Inputs the model draws from *)

\* Hop bytes pushed in the scenarios that interleave pushes and pops.
HopBytes == {3, 255}
\* Packet types of the packets handed to the hop stack.
Types == {6, 200}
\* payload_size values: empty, full (TL_PACKET_MAX_PAYLOAD_SIZE) and one past it.
PayloadSizes == {0, TL_PACKET_MAX_PAYLOAD_SIZE, TL_PACKET_MAX_PAYLOAD_SIZE + 1}
\* routing_size a packet is handed to the hop stack with.
InitRoutingSizes == {0}

\* Content of the packet memory before anything was written to it.
InitByte(off) == (off * 7) % 256
InitMem == [off \in DataOffsets |-> InitByte(off)]

\* struct tl_packet_header / struct tl_packet
Header(t, rs, ps) == [type |-> t, routing_size |-> rs, payload_size |-> ps]
Packet(h, m) == [hdr |-> h, mem |-> m]

-----------------------------------------------------------------------------
(* Inline functions of packet.h *)

tl_packet_total_size(p) ==
  SizeofHeader + p.hdr.payload_size + p.hdr.routing_size

\* Pointers are offsets from the start of the packet.
tl_packet_payload_data(p) == SizeofHeader

\* Variant: the routing data taken to lie at a fixed offset after the header.
tl_packet_routing_data_fixed(p) == SizeofHeader

tl_packet_routing_data(p) == SizeofHeader + p.hdr.payload_size

\* Variant: the first stream type compared with > instead of >=.
tl_packet_stream_id_gt(p) ==
  IF p.hdr.type > TL_PTYPE_STREAM0 THEN p.hdr.type - TL_PTYPE_STREAM0 ELSE -1

tl_packet_stream_id(p) ==
  IF p.hdr.type >= TL_PTYPE_STREAM0 THEN p.hdr.type - TL_PTYPE_STREAM0 ELSE -1

\* Outcome of a call: the packet afterwards, the return value, and whether the
\* call touched memory outside the tl_packet object (undefined behaviour: the
\* packet and return value then carry no meaning and nothing is claimed of them).
Outcome(p, r, u) == [pkt |-> p, ret |-> r, ub |-> u]

\* Variant: no test for an empty trailer.
tl_packet_pop_hop_nocheck(p) ==
  LET rs  == (p.hdr.routing_size - 1) % 256
      off == SizeofHeader + p.hdr.payload_size + rs
      q   == [p EXCEPT !.hdr.routing_size = rs]
  IN  IF off \in DataOffsets THEN Outcome(q, p.mem[off], FALSE) ELSE Outcome(q, 0, TRUE)

\* Variant: the hop read through a signed char.
tl_packet_pop_hop_signed(p) ==
  IF p.hdr.routing_size = 0
  THEN Outcome(p, -1, FALSE)
  ELSE LET rs  == (p.hdr.routing_size - 1) % 256
           off == SizeofHeader + p.hdr.payload_size + rs
           q   == [p EXCEPT !.hdr.routing_size = rs]
       IN  IF off \in DataOffsets
           THEN Outcome(q, IF p.mem[off] >= 128 THEN p.mem[off] - 256 ELSE p.mem[off], FALSE)
           ELSE Outcome(q, 0, TRUE)

\* Variant: routing_size decremented after the read (routing_size--).
tl_packet_pop_hop_postdec(p) ==
  IF p.hdr.routing_size = 0
  THEN Outcome(p, -1, FALSE)
  ELSE LET rs  == (p.hdr.routing_size - 1) % 256
           off == SizeofHeader + p.hdr.payload_size + p.hdr.routing_size
           q   == [p EXCEPT !.hdr.routing_size = rs]
       IN  IF off \in DataOffsets
           THEN Outcome(q, p.mem[off], FALSE)
           ELSE Outcome(q, 0, TRUE)

\* Variant: the trailer read as a queue, from its first byte.
tl_packet_pop_hop_front(p) ==
  IF p.hdr.routing_size = 0
  THEN Outcome(p, -1, FALSE)
  ELSE LET rs  == (p.hdr.routing_size - 1) % 256
           off == SizeofHeader + p.hdr.payload_size
           q   == [p EXCEPT !.hdr.routing_size = rs]
       IN  IF off \in DataOffsets
           THEN Outcome(q, p.mem[off], FALSE)
           ELSE Outcome(q, 0, TRUE)

\* (routing_size == 0) ? -1 : tl_packet_routing_data(pkt)[--pkt->routing_size]
tl_packet_pop_hop(p) ==
  IF p.hdr.routing_size = 0
  THEN Outcome(p, -1, FALSE)
  ELSE LET rs  == (p.hdr.routing_size - 1) % 256
           off == tl_packet_routing_data(p) + rs
           q   == [p EXCEPT !.hdr.routing_size = rs]
       IN  IF off \in DataOffsets
           THEN Outcome(q, p.mem[off], FALSE)
           ELSE Outcome(q, 0, TRUE)

\* Variant: the capacity compared with > instead of >=.
tl_packet_push_hop_gt(p, hop) ==
  IF p.hdr.routing_size > TL_PACKET_MAX_ROUTING_SIZE
  THEN Outcome(p, -1, FALSE)
  ELSE LET off == SizeofHeader + p.hdr.payload_size + p.hdr.routing_size
           rs  == (p.hdr.routing_size + 1) % 256
       IN  IF off \in DataOffsets
           THEN Outcome([p EXCEPT !.hdr.routing_size = rs, !.mem[off] = hop], 0, FALSE)
           ELSE Outcome([p EXCEPT !.hdr.routing_size = rs], 0, TRUE)

\* Variant: the hop byte stored before the capacity is tested.
tl_packet_push_hop_write_first(p, hop) ==
  LET off == SizeofHeader + p.hdr.payload_size + p.hdr.routing_size
      rs  == (p.hdr.routing_size + 1) % 256
      w   == IF off \in DataOffsets THEN [p EXCEPT !.mem[off] = hop] ELSE p
  IN  IF p.hdr.routing_size >= TL_PACKET_MAX_ROUTING_SIZE
      THEN Outcome(w, -1, off \notin DataOffsets)
      ELSE Outcome([w EXCEPT !.hdr.routing_size = rs], 0, off \notin DataOffsets)

\* if (routing_size >= MAX) return -1; routing_data(pkt)[routing_size++] = hop; return 0;
tl_packet_push_hop(p, hop) ==
  IF p.hdr.routing_size >= TL_PACKET_MAX_ROUTING_SIZE
  THEN Outcome(p, -1, FALSE)
  ELSE LET off == tl_packet_routing_data(p) + p.hdr.routing_size
           rs  == (p.hdr.routing_size + 1) % 256
       IN  IF off \in DataOffsets
           THEN Outcome([p EXCEPT !.hdr.routing_size = rs, !.mem[off] = hop], 0, FALSE)
           ELSE Outcome([p EXCEPT !.hdr.routing_size = rs], 0, TRUE)

-----------------------------------------------------------------------------
(* Calls *)

Call(op, arg, ret, rs0, rs1) ==
  [op |-> op, arg |-> arg, ret |-> ret, rs0 |-> rs0, rs1 |-> rs1]

\* The call history keeps the most recent `keep` calls.
Record(c, keep) ==
  IF Len(calls) < keep THEN Append(calls, c) ELSE Append(Tail(calls), c)

CodecIdle == UNCHANGED <<path, routing, parsed, fmt>>

\* A call of tl_packet_push_hop(pkt, hop).
DoPush(hop, keep) ==
  LET o == tl_packet_push_hop(pkt, hop) IN
    /\ ~ub
    /\ pkt' = o.pkt
    /\ ub' = o.ub
    /\ calls' = Record(Call("push", hop, o.ret, pkt.hdr.routing_size,
                            o.pkt.hdr.routing_size), keep)
    /\ UNCHANGED hdr0
    /\ CodecIdle

\* A call of tl_packet_pop_hop(pkt).
DoPop(keep) ==
  LET o == tl_packet_pop_hop(pkt) IN
    /\ ~ub
    /\ pkt' = o.pkt
    /\ ub' = o.ub
    /\ calls' = Record(Call("pop", -1, o.ret, pkt.hdr.routing_size,
                            o.pkt.hdr.routing_size), keep)
    /\ UNCHANGED hdr0
    /\ CodecIdle

\* A call of one of the functions that take the packet and return a value.
DoRead(op, ret, keep) ==
  /\ ~ub
  /\ calls' = Record(Call(op, -1, ret, pkt.hdr.routing_size,
                          pkt.hdr.routing_size), keep)
  /\ UNCHANGED <<pkt, hdr0, ub>>
  /\ CodecIdle

-----------------------------------------------------------------------------
(* Any interleaving of the packet functions on one packet *)

InitCodecIdle ==
  /\ path = << >>
  /\ routing = [i \in 0..(TL_PACKET_MAX_ROUTING_SIZE - 1) |-> 0]
  /\ parsed = 0
  /\ fmt = [ret |-> 0, buf |-> << >>, size |-> 0]

Init ==
  /\ \E t \in Types, rs \in InitRoutingSizes, ps \in PayloadSizes :
       /\ pkt = Packet(Header(t, rs, ps), InitMem)
       /\ hdr0 = Header(t, rs, ps)
  /\ calls = << >>
  /\ phase = "free"
  /\ ub = FALSE
  /\ InitCodecIdle

PushHop == phase = "free" /\ UNCHANGED phase /\ \E hop \in HopBytes : DoPush(hop, 1)

PopHop == phase = "free" /\ UNCHANGED phase /\ DoPop(1)

TotalSize ==
  phase = "free" /\ UNCHANGED phase /\ DoRead("total_size", tl_packet_total_size(pkt), 1)

PayloadData ==
  phase = "free" /\ UNCHANGED phase /\ DoRead("payload_data", tl_packet_payload_data(pkt), 1)

RoutingData ==
  phase = "free" /\ UNCHANGED phase /\ DoRead("routing_data", tl_packet_routing_data(pkt), 1)

StreamId ==
  phase = "free" /\ UNCHANGED phase /\ DoRead("stream_id", tl_packet_stream_id(pkt), 1)

Next == PushHop \/ PopHop \/ TotalSize \/ PayloadData \/ RoutingData \/ StreamId

Spec == Init /\ [][Next]_vars

-----------------------------------------------------------------------------
(* The functions that only read, on every packet type *)

InitReads ==
  /\ \E t \in Byte, rs \in {0, TL_PACKET_MAX_ROUTING_SIZE}, ps \in PayloadSizes :
       /\ pkt = Packet(Header(t, rs, ps), InitMem)
       /\ hdr0 = Header(t, rs, ps)
  /\ calls = << >>
  /\ phase = "free"
  /\ ub = FALSE
  /\ InitCodecIdle

NextReads == TotalSize \/ PayloadData \/ RoutingData \/ StreamId

SpecReads == InitReads /\ [][NextReads]_vars

-----------------------------------------------------------------------------
(* A run of pushes onto an empty trailer followed by a run of pops *)

\* Pushes attempted in a run: the capacity and one more.
MaxPushes == 9
\* Pops attempted after the trailer has been emptied.
MaxExtraPops == 2

Pushes == SelectSeq(calls, LAMBDA c : c.op = "push")
OkPushes == SelectSeq(calls, LAMBDA c : c.op = "push" /\ c.ret = 0)
Pops == SelectSeq(calls, LAMBDA c : c.op = "pop")

InitStack ==
  /\ \E t \in Types, ps \in PayloadSizes :
       /\ pkt = Packet(Header(t, 0, ps), InitMem)
       /\ hdr0 = Header(t, 0, ps)
  /\ calls = << >>
  /\ phase = "push"
  /\ ub = FALSE
  /\ InitCodecIdle

StackPush ==
  /\ phase = "push"
  /\ Len(calls) < MaxPushes
  /\ \E hop \in HopBytes : DoPush(hop, Len(calls) + 1)
  /\ UNCHANGED phase

StackPop ==
  /\ phase \in {"push", "pop"}
  /\ Len(Pops) < Len(OkPushes) + MaxExtraPops
  /\ DoPop(Len(calls) + 1)
  /\ phase' = "pop"

NextStack == StackPush \/ StackPop

SpecStack == InitStack /\ [][NextStack]_vars

-----------------------------------------------------------------------------
(* One push of any hop byte, then one pop *)

InitRoundTrip ==
  /\ \E t \in Types, rs \in 0..TL_PACKET_MAX_ROUTING_SIZE, ps \in PayloadSizes :
       /\ pkt = Packet(Header(t, rs, ps), InitMem)
       /\ hdr0 = Header(t, rs, ps)
  /\ calls = << >>
  /\ phase = "push"
  /\ ub = FALSE
  /\ InitCodecIdle

RoundTripPush ==
  /\ phase = "push"
  /\ \E hop \in Byte : DoPush(hop, Len(calls) + 1)
  /\ phase' = "pop"

RoundTripPop ==
  /\ phase = "pop"
  /\ DoPop(Len(calls) + 1)
  /\ phase' = "done"

NextRoundTrip == RoundTripPush \/ RoundTripPop

SpecRoundTrip == InitRoundTrip /\ [][NextRoundTrip]_vars

-----------------------------------------------------------------------------
(* Routing path codec: tl_parse_routing / tl_format_routing.  packet.h only  *)
(* declares them; they are modelled from their documented contract.          *)

\* A string is a sequence of one-character strings, without its final NUL.
Digits == <<"0", "1", "2", "3", "4", "5", "6", "7", "8", "9">>
IsDigit(c) == \E i \in 1..10 : Digits[i] = c
DigitVal(c) == (CHOOSE i \in 1..10 : Digits[i] = c) - 1

\* Index of the first character at or after i that is not a digit (Len(s) + 1
\* when the digits run to the end of the string).
RECURSIVE SkipDigits(_, _)
SkipDigits(s, i) ==
  IF i <= Len(s) /\ IsDigit(s[i]) THEN SkipDigits(s, i + 1) ELSE i

\* Variant: the value accumulated in a uint8_t.
RECURSIVE AccumulateU8(_, _, _, _)
AccumulateU8(s, i, j, acc) ==
  IF i >= j THEN acc ELSE AccumulateU8(s, i + 1, j, (acc * 10 + DigitVal(s[i])) % 256)

\* Value of the decimal digits s[i..j-1], accumulated left to right.
RECURSIVE Accumulate(_, _, _, _)
Accumulate(s, i, j, acc) ==
  IF i >= j THEN acc ELSE Accumulate(s, i + 1, j, acc * 10 + DigitVal(s[i]))

ParseResult(ret, r) == [ret |-> ret, routing |-> r]

\* Parse the segments starting at s[i], n hops having been stored in r.
RECURSIVE ParseSegments(_, _, _, _)
ParseSegments(r, s, i, n) ==
  IF i > Len(s) THEN ParseResult(n, r)
  ELSE LET j   == SkipDigits(s, i)
           hop == Accumulate(s, i, j, 0)
       IN  IF j = i THEN ParseResult(-1, r)                         \* empty or non-numeric
           ELSE IF hop > 255 THEN ParseResult(-1, r)                \* not a byte
           ELSE IF n >= TL_PACKET_MAX_ROUTING_SIZE THEN ParseResult(-1, r)
           ELSE LET r2 == [r EXCEPT ![n] = hop] IN
                IF j > Len(s) THEN ParseResult(n + 1, r2)
                ELSE IF s[j] = "/" THEN ParseSegments(r2, s, j + 1, n + 1)
                ELSE ParseResult(-1, r2)                            \* junk after the digits

\* int tl_parse_routing(uint8_t *routing, const char *routing_path)
tl_parse_routing(r, s) ==
  ParseSegments(r, s, IF Len(s) > 0 /\ s[1] = "/" THEN 2 ELSE 1, 0)

\* Decimal digits of a byte, most significant first, no leading zeros.
Decimal(v) ==
  IF v < 10 THEN <<Digits[v + 1]>>
  ELSE IF v < 100 THEN <<Digits[(v \div 10) + 1], Digits[(v % 10) + 1]>>
  ELSE <<Digits[(v \div 100) + 1], Digits[((v \div 10) % 10) + 1], Digits[(v % 10) + 1]>>

\* "/" followed by "<hop>/" for each of the first n hops.
RECURSIVE FormatHops(_, _, _)
FormatHops(r, i, n) ==
  IF i >= n THEN << >> ELSE Decimal(r[i]) \o <<"/">> \o FormatHops(r, i + 1, n)

FormatResult(ret, b, size) == [ret |-> ret, buf |-> b, size |-> size]

\* Variant: '/' written between the hops only, none after the last.
tl_format_routing_sep(r, routing_size, buf_size) ==
  LET hops == FormatHops(r, 0, routing_size)
      text == <<"/">> \o (IF Len(hops) > 0 THEN SubSeq(hops, 1, Len(hops) - 1) ELSE hops)
  IN  IF Len(text) + 1 > buf_size
      THEN FormatResult(-1, << >>, buf_size)
      ELSE FormatResult(0, text, buf_size)

\* int tl_format_routing(uint8_t *routing, size_t routing_size, char *buf, size_t buf_size)
\* The text and its NUL must fit in buf_size bytes.
tl_format_routing(r, routing_size, buf_size) ==
  LET text == <<"/">> \o FormatHops(r, 0, routing_size) IN
    IF Len(text) + 1 > buf_size
    THEN FormatResult(-1, << >>, buf_size)
    ELSE FormatResult(0, text, buf_size)

-----------------------------------------------------------------------------
(* A path is parsed; the hops are formatted back, or written to a packet's   *)
(* trailer in the order parsed and popped by relays.                         *)

\* Longest string of the exhaustively enumerated paths.
MaxStrLen == 4
\* Most segments in the enumerated many-segment paths.
MaxSegs == 9

Alphabet == {"/", "0", "2", "5", "6", "x"}
ShortPaths == UNION {[1..k -> Alphabet] : k \in 0..MaxStrLen}

LongSegs == {<<"7">>, <<"2", "5">>}
RECURSIVE Join(_)
Join(segs) ==
  IF Len(segs) = 0 THEN << >>
  ELSE IF Len(segs) = 1 THEN segs[1]
  ELSE segs[1] \o <<"/">> \o Join(Tail(segs))
LongPaths ==
  {(IF lead THEN <<"/">> ELSE << >>) \o Join(segs) \o (IF trail THEN <<"/">> ELSE << >>) :
     lead \in BOOLEAN, trail \in BOOLEAN,
     segs \in UNION {[1..k -> LongSegs] : k \in 1..MaxSegs}}

\* The paths the documentation gives as examples.
ExamplePaths ==
  { <<"/", "3", "/", "1", "/">>,
    <<"3", "/", "1">>,
    <<"/", "3", "/", "/", "1", "/">>,
    <<"/", "2", "5", "6", "/">>,
    <<"/", "1", "/", "2", "/", "3", "/", "4", "/", "5", "/", "6", "/", "7", "/", "8", "/", "9", "/">> }

Paths == ShortPaths \cup LongPaths \cup ExamplePaths

\* Buffer sizes handed to tl_format_routing.
BufSizes == {TL_ROUTING_FMT_BUF_SIZE, TL_PACKET_MAX_ROUTING_SIZE}

InitCodec ==
  /\ \E ps \in {0, TL_PACKET_MAX_PAYLOAD_SIZE} :
       /\ pkt = Packet(Header(2, 0, ps), InitMem)
       /\ hdr0 = Header(2, 0, ps)
  /\ calls = << >>
  /\ phase = "parse"
  /\ ub = FALSE
  /\ path \in Paths
  /\ routing = [i \in 0..(TL_PACKET_MAX_ROUTING_SIZE - 1) |-> 0]
  /\ parsed = 0
  /\ fmt = [ret |-> 0, buf |-> << >>, size |-> 0]

ParseRouting ==
  /\ phase = "parse"
  /\ LET res == tl_parse_routing(routing, path) IN
       /\ parsed' = res.ret
       /\ routing' = res.routing
  /\ phase' = "parsed"
  /\ UNCHANGED <<pkt, hdr0, calls, ub, path, fmt>>

FormatRouting ==
  /\ phase = "parsed"
  /\ parsed >= 0
  /\ \E size \in BufSizes : fmt' = tl_format_routing(routing, parsed, size)
  /\ phase' = "formatted"
  /\ UNCHANGED <<pkt, hdr0, calls, ub, path, routing, parsed>>

\* The caller copies the parsed hops to tl_packet_routing_data(pkt), in the
\* order parsed, and sets routing_size to the hop count.
LoadRouting ==
  /\ phase = "parsed"
  /\ parsed >= 0
  /\ LET base == tl_packet_routing_data(pkt) IN
       pkt' = [pkt EXCEPT
                 !.hdr.routing_size = parsed,
                 !.mem = [off \in DataOffsets |->
                            IF off >= base /\ off < base + parsed
                            THEN routing[off - base] ELSE pkt.mem[off]]]
  /\ phase' = "relay"
  /\ UNCHANGED <<hdr0, calls, ub, path, routing, parsed, fmt>>

\* A relay pops the next hop; the packet is at its destination once a pop fails.
RelayPop ==
  /\ phase = "relay"
  /\ IF calls = << >> THEN TRUE ELSE calls[Len(calls)].ret # -1
  /\ DoPop(Len(calls) + 1)
  /\ UNCHANGED phase

NextCodec == ParseRouting \/ FormatRouting \/ LoadRouting \/ RelayPop

SpecCodec == InitCodec /\ [][NextCodec]_vars

-----------------------------------------------------------------------------
(* Properties of the packet functions *)

\* routing_size <= 8 and payload_size <= 512 - 4 - 8
ValidHeader(h) ==
  /\ h.routing_size \in 0..TL_PACKET_MAX_ROUTING_SIZE
  /\ h.payload_size \in 0..TL_PACKET_MAX_PAYLOAD_SIZE

Last == calls[Len(calls)]
Called == Len(calls) > 0
ReadOps == {"total_size", "payload_data", "routing_data", "stream_id"}

\* The eight bytes at which the routing trailer of packet p can lie.
TrailerOffsets(p) ==
  (SizeofHeader + p.hdr.payload_size)..(SizeofHeader + p.hdr.payload_size + 7)

\* C1: a packet handed over with a valid header still has a valid header
\* after any sequence of push_hop and pop_hop calls, successful or not:
\* routing_size is in 0..8, and the total size, which tl_packet_total_size
\* returns as 4 + payload_size + routing_size, is at most 512.
C1_HeaderStaysValid ==
  ValidHeader(hdr0) =>
    /\ ValidHeader(pkt.hdr)
    /\ pkt.hdr.routing_size \in 0..8
    /\ tl_packet_total_size(pkt) <= 512
    /\ (Called /\ Last.op = "total_size") =>
         /\ Last.ret = 4 + pkt.hdr.payload_size + pkt.hdr.routing_size
         /\ Last.ret <= 512

\* C1 witness: tl_packet_total_size has returned 512 for a packet that was
\* handed over valid and empty and has since been filled with eight hops.
C1_Witness ==
  /\ ValidHeader(hdr0)
  /\ Called /\ Last.op = "total_size" /\ Last.ret = 512
  /\ pkt.hdr.routing_size = 8

\* C3: tl_packet_pop_hop on a packet with routing_size == 0 returns -1 and
\* leaves the whole packet unchanged, so the packet is in the same state for
\* the next pop, however many follow.
C3_PopEmptyFails ==
  [][(Len(calls') > 0 /\ calls'[Len(calls')].op = "pop" /\ pkt.hdr.routing_size = 0)
       => (calls'[Len(calls')].ret = -1 /\ pkt' = pkt /\ ub' = FALSE)]_vars

\* C3 witness: a pop has failed on a packet that had hops pushed and popped
\* before (the trailer bytes are no longer the pristine ones).
C3_Witness ==
  /\ Called /\ Last.op = "pop" /\ Last.ret = -1 /\ Last.rs0 = 0
  /\ pkt.hdr.routing_size = 0
  /\ pkt.mem # InitMem

\* C9: on a packet with a valid header, push_hop and pop_hop change nothing
\* but routing_size and at most one byte, which lies in the routing trailer: a
\* successful push writes the hop at offset 4 + payload_size + old
\* routing_size, which is inside the 512-byte packet, and neither changes
\* type, payload_size or a payload byte; total_size, payload_data,
\* routing_data and stream_id change nothing at all.
C9_Frame ==
  [][(Len(calls') > 0 /\ ValidHeader(pkt.hdr)) =>
       LET c == calls'[Len(calls')]
           off == SizeofHeader + pkt.hdr.payload_size + pkt.hdr.routing_size
       IN  /\ c.op \in ReadOps => (pkt' = pkt /\ ub' = ub)
           /\ c.op \in {"push", "pop"} =>
                /\ ub' = FALSE
                /\ pkt'.hdr.type = pkt.hdr.type
                /\ pkt'.hdr.payload_size = pkt.hdr.payload_size
                \* all bytes but one, x, are as before; x is a trailer byte,
                \* so it lies after the payload and inside the packet
                /\ \E x \in TrailerOffsets(pkt) :
                     /\ x >= SizeofHeader + pkt.hdr.payload_size
                     /\ x < TL_PACKET_MAX_SIZE
                     /\ pkt'.mem = [pkt.mem EXCEPT ![x] = pkt'.mem[x]]
           /\ (c.op = "push" /\ c.ret = 0) =>
                /\ off >= SizeofHeader /\ off < TL_PACKET_MAX_SIZE
                /\ pkt'.mem = [pkt.mem EXCEPT ![off] = c.arg]
     ]_vars

\* C9 witness: a push has written the last byte of the packet buffer (offset
\* 511 of a packet with a full payload and seven hops), the payload intact.
C9_Witness ==
  /\ Called /\ Last.op = "push" /\ Last.ret = 0 /\ Last.rs0 = 7
  /\ pkt.hdr.payload_size = TL_PACKET_MAX_PAYLOAD_SIZE
  /\ pkt.mem[TL_PACKET_MAX_SIZE - 1] = Last.arg
  /\ \A o \in 4..503 : pkt.mem[o] = InitByte(o)

\* C6: tl_packet_stream_id returns type - 128 for every type in 128..255 and
\* -1 for every type in 0..127, and the packet is as it was handed over.
C6_StreamId ==
  (Called /\ Last.op = "stream_id") =>
    /\ pkt.hdr.type \in 128..255 => Last.ret = pkt.hdr.type - 128
    /\ pkt.hdr.type \in 0..127 => Last.ret = -1
    /\ Last.ret \in (0..127) \cup {-1}
    /\ pkt = Packet(hdr0, InitMem)

\* C6 witness: stream_id has returned 127 for type 255.
C6_Witness ==
  /\ Called /\ Last.op = "stream_id"
  /\ pkt.hdr.type = 255 /\ Last.ret = 127

\* C2: from routing_size == 0, the first eight pushes return 0; a ninth push,
\* whatever its hop byte, returns -1 and leaves the packet (routing_size and
\* every trailer byte) unchanged.
C2_PushCapacity ==
  [][(phase = "push" /\ Len(calls') > Len(calls) /\ ValidHeader(hdr0)
        /\ calls'[Len(calls')].op = "push")
       => IF Len(calls) < 8
          THEN calls'[Len(calls')].ret = 0 /\ pkt'.hdr.routing_size = Len(calls) + 1
          ELSE calls'[Len(calls')].ret = -1 /\ pkt' = pkt /\ ub' = FALSE]_vars

\* C2 witness: eight pushes returned 0 and the ninth returned -1.
C2_Witness ==
  /\ phase = "push" /\ Len(calls) = 9
  /\ \A i \in 1..8 : calls[i].op = "push" /\ calls[i].ret = 0
  /\ calls[9].op = "push" /\ calls[9].ret = -1
  /\ pkt.hdr.routing_size = 8

\* C5: hops h1..hk (k in 1..8) pushed onto an empty trailer are popped in
\* reverse order: the j-th pop returns h(k+1-j); after k pops routing_size is
\* 0 and every further pop returns -1.
C5_Lifo ==
  ValidHeader(hdr0) =>
    LET k == Len(OkPushes) IN
      /\ \A j \in 1..Len(Pops) :
           IF j <= k THEN Pops[j].ret = OkPushes[k + 1 - j].arg
                     ELSE Pops[j].ret = -1
      /\ Len(Pops) >= k /\ phase = "pop" => pkt.hdr.routing_size = 0
      /\ Len(Pops) <= k => pkt.hdr.routing_size = k - Len(Pops)

\* C5 witness: eight hops, the first 3 and the last 255, came back as 255
\* first and 3 last, and the ninth pop failed.
C5_Witness ==
  /\ ValidHeader(hdr0)
  /\ Len(OkPushes) = 8 /\ Len(Pops) = 9
  /\ OkPushes[1].arg = 3 /\ OkPushes[2].arg = 3 /\ OkPushes[8].arg = 255
  /\ Pops[1].ret = 255 /\ Pops[7].ret = 3 /\ Pops[8].ret = 3 /\ Pops[9].ret = -1
  /\ pkt.hdr.routing_size = 0

\* C4: a successful push of hop h (any byte, 255 included) followed at once
\* by a pop: the pop returns h, which is not the failure value -1, and
\* routing_size is what it was before the push.
C4_PushPop ==
  (phase = "done" /\ ValidHeader(hdr0) /\ calls[1].ret = 0) =>
    /\ calls[1].op = "push" /\ calls[2].op = "pop"
    /\ calls[2].ret = calls[1].arg
    /\ calls[2].ret # -1
    /\ pkt.hdr.routing_size = calls[1].rs0
    /\ pkt.hdr.routing_size = hdr0.routing_size
    /\ ~ub

\* C4 witness: 255 was pushed onto a packet holding seven hops and popped.
C4_Witness ==
  /\ phase = "done" /\ ValidHeader(hdr0) /\ hdr0.routing_size = 7
  /\ calls[1].op = "push" /\ calls[1].arg = 255 /\ calls[1].ret = 0
  /\ calls[2].op = "pop" /\ calls[2].ret = 255
  /\ pkt.hdr.routing_size = 7

-----------------------------------------------------------------------------
(* Properties of the routing path codec *)

\* The segments of s between its '/' characters.
RECURSIVE Split(_)
Split(s) ==
  IF \E i \in 1..Len(s) : s[i] = "/"
  THEN LET i == CHOOSE k \in 1..Len(s) : s[k] = "/" /\ \A m \in 1..(k - 1) : s[m] # "/"
       IN  <<SubSeq(s, 1, i - 1)>> \o Split(SubSeq(s, i + 1, Len(s)))
  ELSE <<s>>

\* The segments without the empty one before a leading '/' and the empty one
\* after a trailing '/'.
CoreSegments(s) ==
  LET a == Split(s)
      b == IF a[1] = << >> THEN Tail(a) ELSE a
  IN  IF Len(b) > 0 /\ b[Len(b)] = << >> THEN SubSeq(b, 1, Len(b) - 1) ELSE b

IsNumeral(seg) == Len(seg) > 0 /\ \A i \in 1..Len(seg) : IsDigit(seg[i])

RECURSIVE Pow10(_)
Pow10(n) == IF n = 0 THEN 1 ELSE 10 * Pow10(n - 1)

\* Place-value sum of the digits from position i on.
RECURSIVE PlaceSum(_, _)
PlaceSum(seg, i) ==
  IF i > Len(seg) THEN 0
  ELSE DigitVal(seg[i]) * Pow10(Len(seg) - i) + PlaceSum(seg, i + 1)
NumVal(seg) == PlaceSum(seg, 1)

WellFormed(s) ==
  LET segs == CoreSegments(s) IN
    /\ Len(segs) <= 8
    /\ \A i \in 1..Len(segs) : IsNumeral(segs[i]) /\ NumVal(segs[i]) <= 255

\* A numeral without its leading zeros.
RECURSIVE StripZeros(_)
StripZeros(seg) ==
  IF Len(seg) > 1 /\ seg[1] = "0" THEN StripZeros(Tail(seg)) ELSE seg

\* The canonical form of a well-formed path: a leading '/', then every
\* segment as a plain decimal numeral followed by '/'.
RECURSIVE CanonicalSegs(_)
CanonicalSegs(segs) ==
  IF Len(segs) = 0 THEN << >>
  ELSE StripZeros(segs[1]) \o <<"/">> \o CanonicalSegs(Tail(segs))
Canonical(s) == <<"/">> \o CanonicalSegs(CoreSegments(s))

ParseReturned == phase \in {"parsed", "formatted", "relay"}
FormatReturned == phase = "formatted"

\* The parse reported all segments of the path, in left-to-right order.
ParsedAll ==
  LET segs == CoreSegments(path) IN
    /\ parsed = Len(segs)
    /\ \A i \in 1..Len(segs) : routing[i - 1] = NumVal(segs[i])

\* C7: a well-formed path (0..8 decimal segments, each in 0..255, leading and
\* trailing '/' optional) parses successfully to the hop bytes in
\* left-to-right order, and formatting those bytes into a buffer of
\* TL_ROUTING_FMT_BUF_SIZE gives the canonical form of the path, which
\* starts and ends with '/'.
C7_RoundTrip ==
  WellFormed(path) =>
    /\ ParseReturned => ParsedAll
    /\ (FormatReturned /\ fmt.size = TL_ROUTING_FMT_BUF_SIZE) =>
         /\ fmt.ret = 0
         /\ fmt.buf = Canonical(path)
         /\ fmt.buf[1] = "/" /\ fmt.buf[Len(fmt.buf)] = "/"

\* C7 witness: "3/1" has been parsed to [3, 1] and formatted as "/3/1/".
C7_Witness ==
  /\ path = <<"3", "/", "1">>
  /\ FormatReturned
  /\ parsed = 2 /\ routing[0] = 3 /\ routing[1] = 1
  /\ fmt.ret = 0 /\ fmt.buf = <<"/", "3", "/", "1", "/">>

\* C8: tl_parse_routing returns -1 when a segment is empty, is not a
\* numeral, is greater than 255, or when there are more than 8 segments; what
\* it returns is either -1 or the count of a complete, valid hop sequence.
C8_ParseErrors ==
  ParseReturned =>
    LET segs == CoreSegments(path) IN
      /\ (\E i \in 1..Len(segs) : segs[i] = << >>) => parsed = -1
      /\ (\E i \in 1..Len(segs) : ~IsNumeral(segs[i])) => parsed = -1
      /\ (\E i \in 1..Len(segs) : IsNumeral(segs[i]) /\ NumVal(segs[i]) > 255) => parsed = -1
      /\ Len(segs) > 8 => parsed = -1
      /\ parsed \in {-1} \cup 0..8
      /\ parsed # -1 => (WellFormed(path) /\ ParsedAll)

\* C8 witness: the nine-segment example path has been refused.
C8_Witness ==
  /\ path = <<"/", "1", "/", "2", "/", "3", "/", "4", "/", "5", "/", "6", "/", "7", "/",
              "8", "/", "9", "/">>
  /\ ParseReturned
  /\ parsed = -1

\* The parsed hops lie in the packet's trailer in the order parsed, the
\* leftmost segment in the first trailer byte, and routing_size started as
\* the hop count.
Loaded ==
  /\ phase = "relay"
  /\ WellFormed(path) /\ ParsedAll
  /\ \A i \in 1..parsed :
       pkt.mem[SizeofHeader + pkt.hdr.payload_size + i - 1] = NumVal(CoreSegments(path)[i])
  /\ pkt.hdr.routing_size = IF Len(Pops) <= parsed THEN parsed - Len(Pops) ELSE 0

\* C10 as claimed: with the parsed hops written to the trailer left to right,
\* successive pops return the segments of the path left to right.
C10_LeftmostFirst ==
  phase = "relay" =>
    /\ Loaded
    /\ \A j \in 1..Len(Pops) :
         j <= parsed => Pops[j].ret = NumVal(CoreSegments(path)[j])

\* C10 as amended: with the parsed hops written to the trailer left to right,
\* successive pops return the segments of the path right to left (the
\* rightmost segment is the first hop popped), and then fail.
C10_RightmostFirst ==
  phase = "relay" =>
    /\ Loaded
    /\ \A j \in 1..Len(Pops) :
         IF j <= parsed THEN Pops[j].ret = NumVal(CoreSegments(path)[parsed + 1 - j])
                        ELSE Pops[j].ret = -1

\* C10 witness: "/3/1/" was loaded and the relays popped 1, then 3, then
\* found no hop left.
C10_Witness ==
  /\ path = <<"/", "3", "/", "1", "/">>
  /\ Loaded
  /\ Len(Pops) = 3
  /\ Pops[1].ret = 1 /\ Pops[2].ret = 3 /\ Pops[3].ret = -1

====
